---- MODULE Spec2Model ----
(***************************************************************************)
(* Conditional PropType validators (prop-type-conditionals).               *)
(*                                                                         *)
(* The library is a set of pure higher-order functions.  A state of the    *)
(* model is one invocation of one composed validator: the configuration    *)
(* the composer was built with, the arguments of the invocation, the       *)
(* value returned and the log of the calls the composed validator made to  *)
(* the condition function and to the validator it wraps.                   *)
(***************************************************************************)
EXTENDS Integers, Sequences, FiniteSets, TLC

VARIABLES
    pc,                 \* "idle" before the invocation, "returned" after it
    build,              \* "src" (src/prop-types.js) or "dist" (dist/prop-types.js)
    composer,           \* the composer that built the validator
    entry,              \* "validator" (primary entry point) or "isRequired"
    condition,          \* the condition function the composer was given
    validator,          \* the base validator the composer was given
    exclusivePropNames, \* isAllowedIfNone's first argument
    allowedTypes,       \* isOneOfType's argument
    props,              \* the property bag
    propName,           \* the field validated
    componentName,      \* the owner
    rest,               \* the trailing arguments (location, propFullName)
    result,             \* the value returned: Null or an error
    calls               \* the calls made to the condition and to the base validator

vars == <<pc, build, composer, entry, condition, validator, exclusivePropNames,
          allowedTypes, props, propName, componentName, rest, result, calls>>

-----------------------------------------------------------------------------
(* Bounds of the model *)

\* numbers are fixed-point: the JS number x is Num(x * Scale)
Scale == 2
\* numerators range over -MaxQ..MaxQ
MaxQ == 9
\* longest top-level children array
MaxChildren == 3
\* longest nested children group
MaxNested == 1
\* longest list of exclusive prop names
MaxExclusive == 2

-----------------------------------------------------------------------------
(* JavaScript values *)

Undefined == [t |-> "undefined"]
JsNull == [t |-> "null"]
NaN == [t |-> "NaN"]
Infinity == [t |-> "Infinity"]
Num(q) == [t |-> "number", q |-> q]
Str(s) == [t |-> "string", s |-> s]
Element(type) == [t |-> "element", type |-> type]
Text == Str("text")
PlainObject == [t |-> "object"]
Arr(items) == [t |-> "array", items |-> items]

\* typeof value === 'number'
IsNumber(v) == v.t \in {"number", "NaN", "Infinity"}

\* sequences over S of length lo..hi
SeqsBetween(S, lo, hi) == UNION {[1..n -> S] : n \in lo..hi}

\* props.hasOwnProperty(name)
hasOwnProperty(p, name) == name \in DOMAIN p

\* props[name]
GetProp(p, name) == IF name \in DOMAIN p THEN p[name] ELSE Undefined

\* array.includes(x)
includes(arr, x) == \E i \in 1..Len(arr) : arr[i] = x

\* mutant: every in place of some
someOwnProperty_Every(names, p) ==
    \A i \in 1..Len(names) : hasOwnProperty(p, names[i])

\* array.some(name => props.hasOwnProperty(name))
someOwnProperty(names, p) == \E i \in 1..Len(names) : hasOwnProperty(p, names[i])

\* the abstract operation ToNumber on the values the bags hold
ToNumber(v) ==
    CASE IsNumber(v) -> v
      [] v.t = "null" -> Num(0)
      [] v.t = "string" -> IF v.s = "4" THEN Num(4 * Scale) ELSE NaN
      [] OTHER -> NaN

\* a % b on finite numbers: the remainder takes the sign of the dividend
truncRem(a, b) == IF a >= 0 THEN a % b ELSE -((-a) % b)

\* mutant: value % 2
Remainder1_Mod2(v) ==
    LET n == ToNumber(v)
    IN  IF n.t = "number" THEN Num(truncRem(n.q, 2 * Scale)) ELSE NaN

\* value % 1
Remainder1(v) ==
    LET n == ToNumber(v)
    IN  IF n.t = "number" THEN Num(truncRem(n.q, Scale)) ELSE NaN

\* x === 0 (-0 === 0 holds)
StrictEqualsZero(n) == n.t = "number" /\ n.q = 0

-----------------------------------------------------------------------------
(* Errors *)

Null == [kind |-> "null"]

invalidErr(n, cn) == [kind |-> "invalidErr", propName |-> n, componentName |-> cn]

invalidTypeErr(n, cn, allowed) ==
    [kind |-> "invalidTypeErr", propName |-> n, componentName |-> cn,
     allowedTypes |-> allowed]

requiredPropErr(n, cn) ==
    [kind |-> "requiredPropErr", propName |-> n, componentName |-> cn]

exclusiveErr(n, cn, exclusive) ==
    [kind |-> "exclusiveErr", propName |-> n, componentName |-> cn,
     exclusivePropNames |-> exclusive]

\* an error constructed by a base validator; it is none of the library's own
validatorErr(v, n, cn, rs) ==
    [kind |-> "validatorErr", validator |-> v, propName |-> n,
     componentName |-> cn, rest |-> rs]

-----------------------------------------------------------------------------
(* Condition functions and base validators handed to the composers *)

Conditions == {"always", "never", "kindIsAdvanced"}

\* condition(props, propName, componentName)
ConditionApply(c, p, n, cn) ==
    CASE c = "always" -> TRUE
      [] c = "never" -> FALSE
      [] c = "kindIsAdvanced" -> GetProp(p, "kind") = Str("advanced")
      [] c = "wholeNumber" -> StrictEqualsZero(Remainder1(GetProp(p, n)))

Validators ==
    {"PropTypes.string", "PropTypes.number", "PropTypes.string.isRequired",
     "accept", "reject"}

\* a primitive type checker of the prop-types package
PrimitiveTypeChecker(v, expected, required, p, n, cn, rs) ==
    LET value == GetProp(p, n)
        type == IF IsNumber(value) THEN "number" ELSE value.t
    IN  IF value.t \in {"undefined", "null"}
        THEN IF required THEN validatorErr(v, n, cn, rs) ELSE Null
        ELSE IF type = expected THEN Null ELSE validatorErr(v, n, cn, rs)

\* validator(props, propName, componentName, ...rest)
ValidatorApply(v, p, n, cn, rs) ==
    CASE v = "PropTypes.string" -> PrimitiveTypeChecker(v, "string", FALSE, p, n, cn, rs)
      [] v = "PropTypes.number" -> PrimitiveTypeChecker(v, "number", FALSE, p, n, cn, rs)
      [] v = "PropTypes.string.isRequired" ->
            PrimitiveTypeChecker(v, "string", TRUE, p, n, cn, rs)
      [] v = "accept" -> Null
      [] v = "reject" -> validatorErr(v, n, cn, rs)

\* PropTypes.shape({type: PropTypes.oneOf(allowedTypes)})(props, propName, ...)
ShapeTypeOneOf(allowed, p, n, cn, rs) ==
    LET value == GetProp(p, n)
    IN  IF value.t \in {"undefined", "null"} THEN Null
        ELSE IF value.t \notin {"object", "element"}
             THEN validatorErr("PropTypes.shape", n, cn, rs)
        ELSE IF value.t = "object" THEN Null
        ELSE IF includes(allowed, value.type) THEN Null
        ELSE validatorErr("PropTypes.shape", n, cn, rs)

\* the records of the call log
ConditionCall(c, p, n, cn) ==
    [fn |-> "condition", name |-> c, props |-> p, propName |-> n,
     componentName |-> cn, rest |-> <<>>]

ValidatorCall(v, p, n, cn, rs) ==
    [fn |-> "validator", name |-> v, props |-> p, propName |-> n,
     componentName |-> cn, rest |-> rs]

Returned(r, cs) == [result |-> r, calls |-> cs]

-----------------------------------------------------------------------------
(* React.Children.toArray *)

RECURSIVE flatten(_)
flatten(items) ==
    IF items = <<>> THEN <<>>
    ELSE LET h == Head(items)
         IN  (CASE h.t = "array" -> flatten(h.items)
                [] h.t \in {"undefined", "null"} -> <<>>
                [] OTHER -> <<h>>) \o flatten(Tail(items))

toArray(children) == flatten(<<children>>)

\* child.type
childType(child) == IF child.t = "element" THEN child.type ELSE "undefined"

\* mutant: some in place of every
everyChildAllowed_Some(children, allowed) ==
    \E i \in 1..Len(children) : includes(allowed, childType(children[i]))

\* children.every(child => allowedTypes.includes(child.type))
everyChildAllowed(children, allowed) ==
    \A i \in 1..Len(children) : includes(allowed, childType(children[i]))

-----------------------------------------------------------------------------
(* src/prop-types.js *)

\* mutant: both entry points bound to false
createChainedValidator_BothOptional(e) == FALSE

\* mutant: the two bindings swapped
createChainedValidator_Swapped(e) == e = "validator"

\* validator.bind(null, false) and validator.bind(null, true)
createChainedValidator(e) == e = "isRequired"

\* mutant: the trailing arguments are not forwarded
isRequiredIf_DropsRest(c, v, p, n, cn, rs) ==
    LET isRequired == ConditionApply(c, p, n, cn)
        log == <<ConditionCall(c, p, n, cn)>>
    IN  IF isRequired /\ ~hasOwnProperty(p, n)
        THEN Returned(requiredPropErr(n, cn), log)
        ELSE Returned(ValidatorApply(v, p, n, cn, <<>>),
                      log \o <<ValidatorCall(v, p, n, cn, <<>>)>>)

isRequiredIf(c, v, p, n, cn, rs) ==
    LET isRequired == ConditionApply(c, p, n, cn)
        log == <<ConditionCall(c, p, n, cn)>>
    IN  IF isRequired /\ ~hasOwnProperty(p, n)
        THEN Returned(requiredPropErr(n, cn), log)
        ELSE Returned(ValidatorApply(v, p, n, cn, rs),
                      log \o <<ValidatorCall(v, p, n, cn, rs)>>)

\* mutant: required whenever the field is absent
isAllowedIfNone_RequiredAlways(exclusive, v, isRequired, p, n, cn, rs) ==
    LET isSpecified == hasOwnProperty(p, n)
        isOtherExclusivePropSpecified == someOwnProperty(exclusive, p)
    IN  IF isSpecified /\ isOtherExclusivePropSpecified
        THEN Returned(exclusiveErr(n, cn, exclusive), <<>>)
        ELSE IF isRequired /\ ~isSpecified
        THEN Returned(requiredPropErr(n, cn), <<>>)
        ELSE Returned(ValidatorApply(v, p, n, cn, rs),
                      <<ValidatorCall(v, p, n, cn, rs)>>)

isAllowedIfNone(exclusive, v, isRequired, p, n, cn, rs) ==
    LET isSpecified == hasOwnProperty(p, n)
        isOtherExclusivePropSpecified == someOwnProperty(exclusive, p)
    IN  IF isSpecified /\ isOtherExclusivePropSpecified
        THEN Returned(exclusiveErr(n, cn, exclusive), <<>>)
        ELSE IF isRequired /\ ~isSpecified /\ ~isOtherExclusivePropSpecified
        THEN Returned(requiredPropErr(n, cn), <<>>)
        ELSE Returned(ValidatorApply(v, p, n, cn, rs),
                      <<ValidatorCall(v, p, n, cn, rs)>>)

isOneOfType(allowed, isRequired, p, n, cn, rs) ==
    IF isRequired /\ ~hasOwnProperty(p, n)
    THEN Returned(requiredPropErr(n, cn), <<>>)
    ELSE IF n = "children"
    THEN LET children == toArray(GetProp(p, n))
         IN  Returned(IF everyChildAllowed(children, allowed)
                      THEN Null
                      ELSE invalidTypeErr(n, cn, allowed), <<>>)
    ELSE Returned(ShapeTypeOneOf(allowed, p, n, cn, rs),
                  <<ValidatorCall("PropTypes.shape", p, n, cn, rs)>>)

\* mutant: the condition is evaluated before the presence check
isValidIf_ConditionFirst(c, v, isRequired, p, n, cn, rs) ==
    LET isValid == ConditionApply(c, p, n, cn)
        log == <<ConditionCall(c, p, n, cn)>>
    IN  IF ~hasOwnProperty(p, n)
        THEN IF isRequired
             THEN Returned(requiredPropErr(n, cn), log)
             ELSE Returned(ValidatorApply(v, p, n, cn, rs),
                           log \o <<ValidatorCall(v, p, n, cn, rs)>>)
        ELSE IF ~isValid
             THEN Returned(invalidErr(n, cn), log)
             ELSE Returned(ValidatorApply(v, p, n, cn, rs),
                           log \o <<ValidatorCall(v, p, n, cn, rs)>>)

\* mutant: a passing condition replaces the base validator
isValidIf_ConditionReplacesBase(c, v, isRequired, p, n, cn, rs) ==
    IF ~hasOwnProperty(p, n)
    THEN IF isRequired
         THEN Returned(requiredPropErr(n, cn), <<>>)
         ELSE Returned(ValidatorApply(v, p, n, cn, rs),
                       <<ValidatorCall(v, p, n, cn, rs)>>)
    ELSE LET isValid == ConditionApply(c, p, n, cn)
             log == <<ConditionCall(c, p, n, cn)>>
         IN  IF ~isValid
             THEN Returned(invalidErr(n, cn), log)
             ELSE Returned(Null, log)

isValidIf(c, v, isRequired, p, n, cn, rs) ==
    IF ~hasOwnProperty(p, n)
    THEN IF isRequired
         THEN Returned(requiredPropErr(n, cn), <<>>)
         ELSE Returned(ValidatorApply(v, p, n, cn, rs),
                       <<ValidatorCall(v, p, n, cn, rs)>>)
    ELSE LET isValid == ConditionApply(c, p, n, cn)
             log == <<ConditionCall(c, p, n, cn)>>
         IN  IF ~isValid /\ hasOwnProperty(p, n)
             THEN Returned(invalidErr(n, cn), log)
             ELSE Returned(ValidatorApply(v, p, n, cn, rs),
                           log \o <<ValidatorCall(v, p, n, cn, rs)>>)

isWholeNumber(isRequired, p, n, cn, rs) ==
    isValidIf("wholeNumber", "PropTypes.number", isRequired, p, n, cn, rs)

-----------------------------------------------------------------------------
(* dist/prop-types.js *)

dist_isRequiredIf(c, v, p, n, cn, rs) ==
    LET isRequired == ConditionApply(c, p, n, cn)
        log == <<ConditionCall(c, p, n, cn)>>
    IN  IF isRequired /\ ~hasOwnProperty(p, n)
        THEN Returned(requiredPropErr(n, cn), log)
        ELSE Returned(ValidatorApply(v, p, n, cn, rs),
                      log \o <<ValidatorCall(v, p, n, cn, rs)>>)

dist_isAllowedIfNone(exclusive, v, isRequired, p, n, cn, rs) ==
    LET isSpecified == hasOwnProperty(p, n)
        isOtherExclusivePropSpecified == someOwnProperty(exclusive, p)
    IN  IF isSpecified /\ isOtherExclusivePropSpecified
        THEN Returned(exclusiveErr(n, cn, exclusive), <<>>)
        ELSE IF isRequired /\ ~isSpecified
        THEN Returned(requiredPropErr(n, cn), <<>>)
        ELSE Returned(ValidatorApply(v, p, n, cn, rs),
                      <<ValidatorCall(v, p, n, cn, rs)>>)

dist_isOneOfType(allowed, isRequired, p, n, cn, rs) ==
    IF isRequired /\ ~hasOwnProperty(p, n)
    THEN Returned(requiredPropErr(n, cn), <<>>)
    ELSE IF n = "children"
    THEN LET children == toArray(GetProp(p, n))
         IN  Returned(IF everyChildAllowed(children, allowed)
                      THEN Null
                      ELSE invalidTypeErr(n, cn, allowed), <<>>)
    ELSE Returned(ShapeTypeOneOf(allowed, p, n, cn, rs),
                  <<ValidatorCall("PropTypes.shape", p, n, cn, rs)>>)

dist_isValidIf(c, v, isRequired, p, n, cn, rs) ==
    IF ~hasOwnProperty(p, n)
    THEN IF isRequired
         THEN Returned(requiredPropErr(n, cn), <<>>)
         ELSE Returned(ValidatorApply(v, p, n, cn, rs),
                       <<ValidatorCall(v, p, n, cn, rs)>>)
    ELSE LET isValid == ConditionApply(c, p, n, cn)
             log == <<ConditionCall(c, p, n, cn)>>
         IN  IF ~isValid
             THEN Returned(invalidErr(n, cn), log)
             ELSE Returned(ValidatorApply(v, p, n, cn, rs),
                           log \o <<ValidatorCall(v, p, n, cn, rs)>>)

dist_isWholeNumber(isRequired, p, n, cn, rs) ==
    dist_isValidIf("wholeNumber", "PropTypes.number", isRequired, p, n, cn, rs)

-----------------------------------------------------------------------------
(* The inputs of an invocation *)

EntryPoints == {"validator", "isRequired"}
ComponentNames == {"Component"}
Rests == {<<>>, <<"prop", "propFullName">>}

\* every bag that gives each name of its domain one of the values vals[name]
BagsOver(vals) == UNION {{b \in [D -> UNION {vals[k] : k \in D}] :
                             \A k \in D : b[k] \in vals[k]} : D \in SUBSET DOMAIN vals}

GenericNames == {"foo", "bar", "kind"}
GenericValues ==
    [foo |-> {Undefined, Str("basic"), Num(4 * Scale)},
     bar |-> {Undefined, Str("basic"), Num(4 * Scale)},
     kind |-> {Str("advanced"), Str("basic")}]
GenericBags == BagsOver(GenericValues)

ExclusiveLists == SeqsBetween(GenericNames, 0, MaxExclusive)

NumberNames == {"foo", "bar"}
Numbers == {Num(q) : q \in -MaxQ..MaxQ} \cup {NaN, Infinity}
NumberValues == Numbers \cup {Undefined, JsNull, Str("4"), Str("basic")}
NumberBags == BagsOver([foo |-> NumberValues, bar |-> {Num(Scale)}])

TypeTags == {"A", "B"}
Leaves == {Element(tag) : tag \in TypeTags} \cup {Text, JsNull}
Groups == {Arr(g) : g \in SeqsBetween({Element(tag) : tag \in TypeTags}, 1, MaxNested)}
ChildrenValues ==
    {Arr(items) : items \in SeqsBetween(Leaves \cup Groups, 0, MaxChildren)}
        \cup Leaves \cup {Undefined}
TypedValues ==
    {Element(tag) : tag \in TypeTags} \cup {Undefined, Str("basic"), PlainObject}
TypeNames == {"children", "foo"}
TypeBags(n) ==
    IF n = "children"
    THEN BagsOver([children |-> ChildrenValues])
    ELSE BagsOver([foo |-> TypedValues, children |-> {Arr(<<Element("A")>>)}])
AllowedTypeLists == {<<>>, <<"A">>, <<"B">>, <<"A", "B">>}

-----------------------------------------------------------------------------
(* The state machine: one invocation of one composed validator *)

Init ==
    /\ pc = "idle"
    /\ build = "none"
    /\ composer = "none"
    /\ entry = "validator"
    /\ condition = "none"
    /\ validator = "none"
    /\ exclusivePropNames = <<>>
    /\ allowedTypes = <<>>
    /\ props = <<>>
    /\ propName = "none"
    /\ componentName = "none"
    /\ rest = <<>>
    /\ result = Null
    /\ calls = <<>>

\* the invocation (props, propName, componentName, ...rest) returns `out`
Invoke(b, f, e, p, n, cn, rs, out) ==
    /\ pc' = "returned"
    /\ build' = b
    /\ composer' = f
    /\ entry' = e
    /\ props' = p
    /\ propName' = n
    /\ componentName' = cn
    /\ rest' = rs
    /\ result' = out.result
    /\ calls' = out.calls

CallIsRequiredIf ==
    /\ pc = "idle"
    /\ \E c \in Conditions, v \in Validators, p \in GenericBags, n \in GenericNames,
          cn \in ComponentNames, rs \in Rests :
           /\ Invoke("src", "isRequiredIf", "validator", p, n, cn, rs,
                     isRequiredIf(c, v, p, n, cn, rs))
           /\ condition' = c
           /\ validator' = v
           /\ UNCHANGED <<exclusivePropNames, allowedTypes>>

CallIsAllowedIfNone ==
    /\ pc = "idle"
    /\ \E x \in ExclusiveLists, v \in Validators, e \in EntryPoints, p \in GenericBags,
          n \in GenericNames, cn \in ComponentNames, rs \in Rests :
           /\ Invoke("src", "isAllowedIfNone", e, p, n, cn, rs,
                     isAllowedIfNone(x, v, createChainedValidator(e), p, n, cn, rs))
           /\ exclusivePropNames' = x
           /\ validator' = v
           /\ UNCHANGED <<condition, allowedTypes>>

CallIsOneOfType ==
    /\ pc = "idle"
    /\ \E a \in AllowedTypeLists, e \in EntryPoints, n \in TypeNames,
          cn \in ComponentNames, rs \in Rests :
           \E p \in TypeBags(n) :
               /\ Invoke("src", "isOneOfType", e, p, n, cn, rs,
                         isOneOfType(a, createChainedValidator(e), p, n, cn, rs))
               /\ allowedTypes' = a
               /\ UNCHANGED <<condition, validator, exclusivePropNames>>

CallIsValidIf ==
    /\ pc = "idle"
    /\ \E c \in Conditions, v \in Validators, e \in EntryPoints, p \in GenericBags,
          n \in GenericNames, cn \in ComponentNames, rs \in Rests :
           /\ Invoke("src", "isValidIf", e, p, n, cn, rs,
                     isValidIf(c, v, createChainedValidator(e), p, n, cn, rs))
           /\ condition' = c
           /\ validator' = v
           /\ UNCHANGED <<exclusivePropNames, allowedTypes>>

CallIsWholeNumber ==
    /\ pc = "idle"
    /\ \E e \in EntryPoints, p \in NumberBags, n \in NumberNames,
          cn \in ComponentNames, rs \in Rests :
           /\ Invoke("src", "isWholeNumber", e, p, n, cn, rs,
                     isWholeNumber(createChainedValidator(e), p, n, cn, rs))
           /\ condition' = "wholeNumber"
           /\ validator' = "PropTypes.number"
           /\ UNCHANGED <<exclusivePropNames, allowedTypes>>

Next ==
    \/ CallIsRequiredIf
    \/ CallIsAllowedIfNone
    \/ CallIsOneOfType
    \/ CallIsValidIf
    \/ CallIsWholeNumber

Spec == Init /\ [][Next]_vars

DistCallIsRequiredIf ==
    /\ pc = "idle"
    /\ \E c \in Conditions, v \in Validators, p \in GenericBags, n \in GenericNames,
          cn \in ComponentNames, rs \in Rests :
           /\ Invoke("dist", "isRequiredIf", "validator", p, n, cn, rs,
                     dist_isRequiredIf(c, v, p, n, cn, rs))
           /\ condition' = c
           /\ validator' = v
           /\ UNCHANGED <<exclusivePropNames, allowedTypes>>

DistCallIsAllowedIfNone ==
    /\ pc = "idle"
    /\ \E x \in ExclusiveLists, v \in Validators, e \in EntryPoints, p \in GenericBags,
          n \in GenericNames, cn \in ComponentNames, rs \in Rests :
           /\ Invoke("dist", "isAllowedIfNone", e, p, n, cn, rs,
                     dist_isAllowedIfNone(x, v, createChainedValidator(e), p, n, cn, rs))
           /\ exclusivePropNames' = x
           /\ validator' = v
           /\ UNCHANGED <<condition, allowedTypes>>

DistCallIsOneOfType ==
    /\ pc = "idle"
    /\ \E a \in AllowedTypeLists, e \in EntryPoints, n \in TypeNames,
          cn \in ComponentNames, rs \in Rests :
           \E p \in TypeBags(n) :
               /\ Invoke("dist", "isOneOfType", e, p, n, cn, rs,
                         dist_isOneOfType(a, createChainedValidator(e), p, n, cn, rs))
               /\ allowedTypes' = a
               /\ UNCHANGED <<condition, validator, exclusivePropNames>>

DistCallIsValidIf ==
    /\ pc = "idle"
    /\ \E c \in Conditions, v \in Validators, e \in EntryPoints, p \in GenericBags,
          n \in GenericNames, cn \in ComponentNames, rs \in Rests :
           /\ Invoke("dist", "isValidIf", e, p, n, cn, rs,
                     dist_isValidIf(c, v, createChainedValidator(e), p, n, cn, rs))
           /\ condition' = c
           /\ validator' = v
           /\ UNCHANGED <<exclusivePropNames, allowedTypes>>

DistCallIsWholeNumber ==
    /\ pc = "idle"
    /\ \E e \in EntryPoints, p \in NumberBags, n \in NumberNames,
          cn \in ComponentNames, rs \in Rests :
           /\ Invoke("dist", "isWholeNumber", e, p, n, cn, rs,
                     dist_isWholeNumber(createChainedValidator(e), p, n, cn, rs))
           /\ condition' = "wholeNumber"
           /\ validator' = "PropTypes.number"
           /\ UNCHANGED <<exclusivePropNames, allowedTypes>>

NextDist ==
    \/ DistCallIsRequiredIf
    \/ DistCallIsAllowedIfNone
    \/ DistCallIsOneOfType
    \/ DistCallIsValidIf
    \/ DistCallIsWholeNumber

SpecDist == Init /\ [][NextDist]_vars

-----------------------------------------------------------------------------
(* Vocabulary of the properties *)

Chained == {"isAllowedIfNone", "isOneOfType", "isValidIf", "isWholeNumber"}
Wrapping == {"isRequiredIf", "isAllowedIfNone", "isValidIf"}

Done(f) == pc = "returned" /\ composer = f
FieldPresent == propName \in DOMAIN props
OtherPresent == \E i \in 1..Len(exclusivePropNames) : exclusivePropNames[i] \in DOMAIN props
ViaRequired == entry = "isRequired"
ConditionHolds == ConditionApply(condition, props, propName, componentName)
BaseResult == ValidatorApply(validator, props, propName, componentName, rest)
BaseCall == ValidatorCall(validator, props, propName, componentName, rest)
MissingRequired == requiredPropErr(propName, componentName)
BaseInvoked == \E i \in 1..Len(calls) : calls[i] = BaseCall
ConditionEvaluated == \E i \in 1..Len(calls) : calls[i].fn = "condition"
Delegated == result = BaseResult /\ Len(calls) > 0 /\ calls[Len(calls)] = BaseCall

\* what the primary entry point of the same validator returns on the same arguments
PrimaryResult ==
    LET r == createChainedValidator("validator")
    IN  CASE composer = "isAllowedIfNone" ->
                isAllowedIfNone(exclusivePropNames, validator, r, props, propName,
                                componentName, rest).result
          [] composer = "isOneOfType" ->
                isOneOfType(allowedTypes, r, props, propName, componentName, rest).result
          [] composer = "isValidIf" ->
                isValidIf(condition, validator, r, props, propName, componentName,
                          rest).result
          [] composer = "isWholeNumber" ->
                isWholeNumber(r, props, propName, componentName, rest).result

\* what src/prop-types.js returns for the invocation of the state
SrcResult ==
    LET r == createChainedValidator(entry)
    IN  CASE composer = "isRequiredIf" ->
                isRequiredIf(condition, validator, props, propName, componentName,
                             rest).result
          [] composer = "isAllowedIfNone" ->
                isAllowedIfNone(exclusivePropNames, validator, r, props, propName,
                                componentName, rest).result
          [] composer = "isOneOfType" ->
                isOneOfType(allowedTypes, r, props, propName, componentName, rest).result
          [] composer = "isValidIf" ->
                isValidIf(condition, validator, r, props, propName, componentName,
                          rest).result
          [] composer = "isWholeNumber" ->
                isWholeNumber(r, props, propName, componentName, rest).result

-----------------------------------------------------------------------------
(* Properties *)

\* C1: isAllowedIfNone: when the target field and at least one exclusive
\* alternative are both present, both entry points return the exclusivity
\* error and the base validator is not consulted.
C1_ExclusivityFirst ==
    (Done("isAllowedIfNone") /\ FieldPresent /\ OtherPresent)
        => /\ result = exclusiveErr(propName, componentName, exclusivePropNames)
           /\ ~BaseInvoked

\* the .isRequired entry point, both present, and a base validator that accepts
C1_Witness ==
    /\ Done("isAllowedIfNone") /\ FieldPresent /\ OtherPresent /\ ViaRequired
    /\ BaseResult = Null
    /\ result.kind = "exclusiveErr"

\* C2: isAllowedIfNone(...).isRequired with the target field absent returns
\* what the base validator returns when an exclusive alternative is present,
\* and the missing-required-field error when none is.
C2_RequiredOnlyIfNoneDefined ==
    (Done("isAllowedIfNone") /\ ViaRequired /\ ~FieldPresent)
        => IF OtherPresent
           THEN result # MissingRequired /\ Delegated
           ELSE result = MissingRequired

C2_Witness ==
    /\ Done("isAllowedIfNone") /\ ViaRequired /\ ~FieldPresent /\ OtherPresent
    /\ result = Null

\* C3: on every chained composer, .isRequired with the field absent (and, for
\* isAllowedIfNone, no exclusive alternative present) returns the
\* missing-required-field error, whatever the base validator and the
\* condition, and the base validator is not the source of the outcome.
C3_RequiredAbsentFails ==
    (pc = "returned" /\ composer \in Chained /\ ViaRequired /\ ~FieldPresent
        /\ (composer = "isAllowedIfNone" => ~OtherPresent))
        => result = MissingRequired /\ calls = <<>>

C3_Witness ==
    /\ Done("isValidIf") /\ ViaRequired /\ ~FieldPresent
    /\ validator = "accept" /\ condition = "always"
    /\ result = MissingRequired

\* C4: isRequiredIf returns the missing-required-field error exactly when the
\* condition is true and the field is absent; otherwise its result is the base
\* validator's, called with all the original arguments.  {kind: 'advanced'}
\* without the field gives the error, {kind: 'basic'} gives null.
C4_RequiredIf ==
    /\ Done("isRequiredIf")
        => /\ (result = MissingRequired) <=> (ConditionHolds /\ ~FieldPresent)
           /\ ~(ConditionHolds /\ ~FieldPresent) => Delegated
    /\ (Done("isRequiredIf") /\ condition = "kindIsAdvanced" /\ propName = "foo"
            /\ validator = "PropTypes.string")
        => /\ props = [kind |-> Str("advanced")] => result = MissingRequired
           /\ props = [kind |-> Str("basic")] => result = Null

C4_Witness ==
    /\ Done("isRequiredIf") /\ condition = "kindIsAdvanced" /\ propName = "foo"
    /\ validator = "PropTypes.string" /\ props = [kind |-> Str("basic")]
    /\ rest # <<>> /\ result = Null /\ Delegated

\* C5: isValidIf with the field present returns the generic invalidity error
\* when the condition is false and the base validator's result otherwise; with
\* the field absent the condition is not evaluated and the result is the
\* missing-required-field error on .isRequired and the base validator's result
\* on the optional entry point.
C5_ValidIf ==
    Done("isValidIf")
        => IF FieldPresent
           THEN IF ConditionHolds
                THEN Delegated
                ELSE result = invalidErr(propName, componentName)
           ELSE /\ ~ConditionEvaluated
                /\ IF ViaRequired THEN result = MissingRequired ELSE Delegated

C5_Witness ==
    /\ Done("isValidIf") /\ ~FieldPresent /\ ~ViaRequired /\ condition = "never"
    /\ result = Null

\* the value is a number with no fractional part
IsInteger(v) == v.t = "number" /\ \E k \in -MaxQ..MaxQ : v.q = k * Scale

\* C6: isWholeNumber on a present numeric value returns null for an integer
\* and the generic invalidity error for a non-integer; on an absent field the
\* optional entry point returns null.
C6_WholeNumber ==
    Done("isWholeNumber")
        => /\ (FieldPresent /\ IsNumber(props[propName]))
                => IF IsInteger(props[propName])
                   THEN result = Null
                   ELSE result = invalidErr(propName, componentName)
           /\ (~FieldPresent /\ ~ViaRequired) => result = Null

\* a negative integer is accepted
C6_Witness ==
    /\ Done("isWholeNumber") /\ FieldPresent
    /\ props[propName] = Num(-2 * Scale) /\ result = Null

\* the flattened child sequence of the bag
FlatChildren == toArray(GetProp(props, "children"))
AllChildrenAllowed ==
    \A i \in 1..Len(FlatChildren) :
        /\ FlatChildren[i].t = "element"
        /\ \E j \in 1..Len(allowedTypes) : allowedTypes[j] = FlatChildren[i].type

\* C7: isOneOfType on 'children' returns null iff every element of the
\* flattened child sequence has a type tag in allowedTypes, and the
\* type-mismatch error naming allowedTypes otherwise; [A, B, A] passes
\* [A, B] and fails [A].  (The .isRequired entry point with the field absent
\* is the missing-required case of C3.)
C7_Children ==
    /\ (Done("isOneOfType") /\ propName = "children" /\ (~ViaRequired \/ FieldPresent))
        => IF AllChildrenAllowed
           THEN result = Null
           ELSE result = invalidTypeErr(propName, componentName, allowedTypes)
    /\ (Done("isOneOfType") /\ propName = "children"
            /\ props = [children |-> Arr(<<Element("A"), Element("B"), Element("A")>>)])
        => /\ allowedTypes = <<"A", "B">> => result = Null
           /\ allowedTypes = <<"A">>
                => result = invalidTypeErr("children", componentName, <<"A">>)

C7_Witness ==
    /\ Done("isOneOfType") /\ propName = "children"
    /\ props = [children |-> Arr(<<Element("A"), Element("B"), Element("A")>>)]
    /\ allowedTypes = <<"A">>
    /\ result.kind = "invalidTypeErr"

\* C8 as stated: on every chained validator .isRequired returns the
\* missing-required-field error when the field is absent and otherwise what
\* the primary entry point returns on the same arguments.
C8_RequiredIsPrimaryPlusPresence ==
    (pc = "returned" /\ composer \in Chained /\ ViaRequired)
        => IF FieldPresent
           THEN result = PrimaryResult
           ELSE result = MissingRequired

\* C8 amended: as C8, except that isAllowedIfNone(...).isRequired returns the
\* missing-required-field error only when the field is absent and no exclusive
\* alternative is present; with the field absent and an alternative present it
\* returns what the primary entry point returns.
C8_RequiredIsPrimaryUnlessOverridden ==
    (pc = "returned" /\ composer \in Chained /\ ViaRequired)
        => IF FieldPresent \/ (composer = "isAllowedIfNone" /\ OtherPresent)
           THEN result = PrimaryResult
           ELSE result = MissingRequired

C8_Witness ==
    /\ Done("isAllowedIfNone") /\ ViaRequired /\ ~FieldPresent /\ OtherPresent
    /\ validator = "reject"
    /\ result = PrimaryResult /\ result.kind = "validatorErr"

\* the composer's own failure conditions
OwnFailure ==
    CASE composer = "isRequiredIf" -> ConditionHolds /\ ~FieldPresent
      [] composer = "isAllowedIfNone" ->
            \/ FieldPresent /\ OtherPresent
            \/ ViaRequired /\ ~FieldPresent /\ ~OtherPresent
      [] composer = "isValidIf" ->
            \/ ~FieldPresent /\ ViaRequired
            \/ FieldPresent /\ ~ConditionHolds

\* C9: a composer that wraps a base validator never suppresses its failure: a
\* null result means the base validator was invoked on the same bag, field and
\* owner and returned null, and when none of the composer's own failure
\* conditions holds the result is the base validator's.
C9_NoSuppression ==
    (pc = "returned" /\ composer \in Wrapping)
        => /\ result = Null => BaseInvoked /\ BaseResult = Null
           /\ ~OwnFailure => result = BaseResult

\* the base validator's failure comes through a passing condition
C9_Witness ==
    /\ Done("isValidIf") /\ FieldPresent /\ ConditionHolds
    /\ BaseInvoked /\ result.kind = "validatorErr"

\* C10: the distributed build returns, for every composer, entry point and
\* input, the same outcome (null, or the same kind of error) as the source.
C10_DistEqualsSrc ==
    (pc = "returned" /\ build = "dist") => result.kind = SrcResult.kind

====
